---- MODULE Spec2Model ----
(***************************************************************************)
(* Solve ingestion and ranking of the two bots of this repository:         *)
(* minibot.py (NYT mini crossword, keyed by date, with a badge checksum)   *)
(* and pipbot.py (Pips, keyed by version and difficulty).                  *)
(*                                                                         *)
(* One behaviour is one run of one of the two programs (variable bot).     *)
(* A unit of work is one call of Bot.on_message; it runs without           *)
(* interruption up to each await on the network, where it is suspended.    *)
(* Strings that the code builds (format_time, format_date, render) are     *)
(* sequences of string tokens, numbers written out digit by digit.         *)
(***************************************************************************)
EXTENDS Integers, Sequences, FiniteSets, TLC

VARIABLES
    bot,      \* which program runs: "minibot" or "pipbot"
    solves,   \* the rows of the Solve table of that program's database
    units,    \* the units of work (calls of on_message), by slot
    inbox     \* the messages of a scripted run that have not arrived yet

vars == <<bot, solves, units, inbox>>

----------------------------------------------------------------------------
(* Input sets.                                                             *)

Users == {1, 2, 3}
Guilds == {1, 2}
DisplayName == [u \in Users |-> CASE u = 1 -> "A" [] u = 2 -> "B" [] u = 3 -> "C"]

\* calendar dates are <<year, month, day>>
D1 == <<2024, 4, 20>>
D2 == <<2024, 4, 21>>
BadDate == <<2024, 2, 30>>
Dates == {D1, D2}

Seconds == {30, 52}
Checksums == {"514e"}
\* Pips puzzles are <<version, difficulty>>
P1 == <<38, "Hard">>
P2 == <<38, "Easy">>
P3 == <<39, "Hard">>
\* who posts in which guild about which puzzle: two users on one puzzle of
\* one guild, and one of them also in another guild and on the other puzzles
MiniPosts == {<<1, 1, D1>>, <<2, 1, D1>>, <<1, 2, D1>>, <<1, 1, D2>>}
PipPosts == {<<1, 1, P1>>, <<2, 1, P1>>, <<1, 2, P1>>, <<1, 1, P2>>, <<1, 1, P3>>}
\* the posts written as a badge link (one of them with an impossible date)
\* and those written as a sentence
BadgePosts == MiniPosts \cup {<<1, 1, BadDate>>}
NewPosts == {<<1, 1, D1>>, <<1, 1, BadDate>>}
\* who writes commands in which guild
Authors == {<<2, 1>>, <<1, 2>>}
\* readings of datetime.datetime.now, in whole seconds
MaxClock == 1
Timestamps == 0..MaxClock
\* bodies of the two badge images
Images == {"blank", "badge"}
BaseImages == {"blank"}
\* durations as the sentence and the Pips message write them (0:30, 0:00:52)
Durations == {<<0, 30>>, <<0, 0, 52>>}
\* the words of the commands
MiniCommands == {<<>>, <<"l">>, <<"leaderboard", "date">>, <<"help">>}
PipCommands == {<<>>, <<"l">>}
DumpCommands == {<<"d">>, <<"dump">>}
\* three users on one puzzle of one guild
RankPosts == {<<1, 1>>, <<2, 1>>, <<3, 1>>}
ConcPosts == {<<1, 1>>, <<2, 1>>}
RenderSeconds == {5, 600, 3723}
RenderDurations == {<<0, 5>>, <<10, 0>>, <<1, 2, 3>>}
TwoNumbers == {<<m, s>> : m \in {0, 1, 12}, s \in {0, 3, 52, 75}}
ThreeNumbers == {<<h, m, s>> : h \in {0, 1, 25}, m \in {2, 59}, s \in {3, 52}}
NoDurations == {<<"5", "2">>, <<"0", ":", "5">>, <<"1", "2", "3", ":", "4", "5">>}
RankSeconds == {30, 45}
\* the checksums of the scripted run
ScriptChecksums == {"514e", "a1b2"}
Units == {1, 2}

None == -1       \* Python's None where an integer is expected
NoMember == 0    \* guild.get_member returning None

----------------------------------------------------------------------------
(* Text.                                                                   *)

Digit == [n \in 0..9 |-> CASE n = 0 -> "0" [] n = 1 -> "1" [] n = 2 -> "2"
                           [] n = 3 -> "3" [] n = 4 -> "4" [] n = 5 -> "5"
                           [] n = 6 -> "6" [] n = 7 -> "7" [] n = 8 -> "8"
                           [] n = 9 -> "9"]

RECURSIVE Str(_)
\* str(n) of a non-negative integer
Str(n) == IF n < 10 THEN <<Digit[n]>> ELSE Str(n \div 10) \o <<Digit[n % 10]>>

RECURSIVE Pad(_, _)
\* f"{n:0<w>d}"
Pad(n, w) == IF w <= 1 \/ n >= 10 ^ (w - 1) THEN Str(n)
             ELSE <<"0">> \o Pad(n, w - 1)

\* a variant that pads the minutes to two digits too
format_time_mm(seconds) ==
    Pad(seconds \div 60, 2) \o <<":">> \o Pad(seconds % 60, 2)

format_time(seconds) ==
    Str(seconds \div 60) \o <<":">> \o Pad(seconds % 60, 2)

format_date(date) ==
    Pad(date[1], 4) \o <<"-">> \o Pad(date[2], 2) \o <<"-">> \o Pad(date[3], 2)

----------------------------------------------------------------------------
(* Dates and durations.                                                    *)

IsLeap(y) == (y % 4 = 0 /\ y % 100 # 0) \/ y % 400 = 0

DaysIn(y, m) == IF m = 2 THEN (IF IsLeap(y) THEN 29 ELSE 28)
                ELSE IF m \in {4, 6, 9, 11} THEN 30 ELSE 31

\* whether strptime accepts the fields; it raises ValueError otherwise
IsDate(y, m, d) == y >= 1 /\ m \in 1..12 /\ d >= 1 /\ d <= DaysIn(y, m)

\* datetime.datetime.strptime(d, "%Y-%m-%d").date(); d holds the numbers of
\* the text in the order they are written
strptime_ymd(d) == <<d[1], d[2], d[3]>>
strptime_ymd_ok(d) == IsDate(d[1], d[2], d[3])

\* datetime.datetime.strptime(d, "%m/%d/%Y").date()
strptime_mdy(d) == <<d[3], d[1], d[2]>>
strptime_mdy_ok(d) == IsDate(d[3], d[1], d[2])

RECURSIVE Pow60Sum(_, _)
\* sum(60 ** i * x for i, x in enumerate(xs)), from index i of xs on
Pow60Sum(xs, i) == IF i > Len(xs) THEN 0
                   ELSE 60 ^ (i - 1) * xs[i] + Pow60Sum(xs, i + 1)

\* a variant that leaves the order as written
Forward(xs) == xs

Reversed(xs) == [i \in 1..Len(xs) |-> xs[Len(xs) + 1 - i]]

\* the seconds of a duration "h:mm:ss" or "m:ss" given as its numbers
DurationSeconds(time) == Pow60Sum(Reversed(time), 1)

DigitValue(c) == CASE c = "0" -> 0 [] c = "1" -> 1 [] c = "2" -> 2 [] c = "3" -> 3
                   [] c = "4" -> 4 [] c = "5" -> 5 [] c = "6" -> 6 [] c = "7" -> 7
                   [] c = "8" -> 8 [] c = "9" -> 9

RECURSIVE int(_)
\* int(text) of a text of digits
int(text) == IF text = <<>> THEN 0
             ELSE 10 * int(SubSeq(text, 1, Len(text) - 1)) + DigitValue(text[Len(text)])

RECURSIVE split(_)
\* text.split(":")
split(text) ==
    IF \A i \in 1..Len(text) : text[i] # ":" THEN <<text>>
    ELSE LET i == CHOOSE k \in 1..Len(text) :
                      text[k] = ":" /\ \A j \in 1..(k - 1) : text[j] # ":"
         IN  <<SubSeq(text, 1, i - 1)>> \o split(SubSeq(text, i + 1, Len(text)))

IsDigits(text) ==
    text # <<>> /\ \A i \in 1..Len(text) :
                       text[i] \in {"0", "1", "2", "3", "4", "5", "6", "7", "8", "9"}

\* whether the text is what the group ((?:\d+:)?\d{1,2}:\d{2}) of the patterns
\* matches
duration_match(text) ==
    LET parts == split(text)
        n == Len(parts)
    IN  /\ n \in {2, 3}
        /\ \A i \in 1..n : IsDigits(parts[i])
        /\ Len(parts[n]) = 2
        /\ Len(parts[n - 1]) \in {1, 2}

\* map(int, t.split(":"))
duration_numbers(text) == [i \in 1..Len(split(text)) |-> int(split(text)[i])]

----------------------------------------------------------------------------
(* The Solve table.  A row of minibot is                                   *)
(*   [user_id, guild_id, timestamp, date, seconds, checksum]               *)
(* and a row of pipbot is                                                  *)
(*   [user_id, guild_id, timestamp, difficulty, version, seconds].         *)
(* The table is the set of its rows; the automatic primary key, which the  *)
(* code never reads, is left out, and a query without ORDER BY returns the *)
(* rows in any order.                                                      *)

\* Solve.get(user_id=..., guild_id=..., date=...): the rows that match
mini_get(table, user_id, guild_id, date) ==
    {s \in table : s.user_id = user_id /\ s.guild_id = guild_id /\ s.date = date}

\* a variant that inserts without looking for the row first
mini_create(table, user_id, guild_id, date, seconds, checksum, now) ==
    LET new == [user_id |-> user_id, guild_id |-> guild_id, timestamp |-> now,
                date |-> date, seconds |-> seconds, checksum |-> checksum]
    IN  [table |-> table \cup {new}, solve |-> new, created |-> TRUE]

\* Solve.get_or_create(user_id, guild_id, date, defaults): the row found, or
\* a new row with the defaults and timestamp now
mini_get_or_create(table, user_id, guild_id, date, seconds, checksum, now) ==
    LET found == mini_get(table, user_id, guild_id, date)
        new == [user_id |-> user_id, guild_id |-> guild_id, timestamp |-> now,
                date |-> date, seconds |-> seconds, checksum |-> checksum]
    IN  IF found # {}
        THEN [table |-> table, solve |-> CHOOSE s \in found : TRUE, created |-> FALSE]
        ELSE [table |-> table \cup {new}, solve |-> new, created |-> TRUE]

\* a variant that inserts the row again where save updates it
save_inserts(table, old, solve) == table \cup {solve}

\* a variant that deletes the row where save updates it
save_deletes(table, old, solve) == table \ {old}

\* solve.save() after the assignments to solve: the row is written over
save(table, old, solve) == (table \ {old}) \cup {solve}

\* a variant that saves a row that existed whether or not the seconds differ
mini_upsert_always_saves(table, user_id, guild_id, date, seconds, checksum, now) ==
    LET r == mini_get_or_create(table, user_id, guild_id, date, seconds, checksum, now)
    IN  IF ~r.created
        THEN [table |-> save(r.table, r.solve,
                             [r.solve EXCEPT !.seconds = seconds, !.checksum = checksum]),
              created |-> r.created, saved |-> r.solve.seconds # seconds]
        ELSE [table |-> r.table, created |-> r.created, saved |-> FALSE]

\* a variant that keeps the best time: it saves only smaller seconds
mini_upsert_keeps_best(table, user_id, guild_id, date, seconds, checksum, now) ==
    LET r == mini_get_or_create(table, user_id, guild_id, date, seconds, checksum, now)
    IN  IF ~r.created /\ seconds < r.solve.seconds
        THEN [table |-> save(r.table, r.solve,
                             [r.solve EXCEPT !.seconds = seconds, !.checksum = checksum]),
              created |-> r.created, saved |-> TRUE]
        ELSE [table |-> r.table, created |-> r.created, saved |-> FALSE]

\* a variant that keeps the first time: it never saves
mini_upsert_keeps_first(table, user_id, guild_id, date, seconds, checksum, now) ==
    LET r == mini_get_or_create(table, user_id, guild_id, date, seconds, checksum, now)
    IN  [table |-> r.table, created |-> r.created, saved |-> FALSE]

\* a variant that saves the checksum and leaves the seconds of the row
mini_upsert_keeps_seconds(table, user_id, guild_id, date, seconds, checksum, now) ==
    LET r == mini_get_or_create(table, user_id, guild_id, date, seconds, checksum, now)
    IN  IF ~r.created /\ r.solve.seconds # seconds
        THEN [table |-> save(r.table, r.solve, [r.solve EXCEPT !.checksum = checksum]),
              created |-> r.created, saved |-> TRUE]
        ELSE [table |-> r.table, created |-> r.created, saved |-> FALSE]

\* the store part of on_mini_crossword_solve: get_or_create, then seconds and
\* checksum of a row that existed with other seconds are set and saved.
\* Gives the table, created, and whether save ran.
mini_upsert(table, user_id, guild_id, date, seconds, checksum, now) ==
    LET r == mini_get_or_create(table, user_id, guild_id, date, seconds, checksum, now)
    IN  IF ~r.created /\ r.solve.seconds # seconds
        THEN [table |-> save(r.table, r.solve,
                             [r.solve EXCEPT !.seconds = seconds, !.checksum = checksum]),
              created |-> r.created, saved |-> TRUE]
        ELSE [table |-> r.table, created |-> r.created, saved |-> FALSE]

pip_get(table, user_id, guild_id, version, difficulty) ==
    {s \in table : /\ s.user_id = user_id /\ s.guild_id = guild_id
                   /\ s.version = version /\ s.difficulty = difficulty}

pip_get_or_create(table, user_id, guild_id, version, difficulty, seconds, now) ==
    LET found == pip_get(table, user_id, guild_id, version, difficulty)
        new == [user_id |-> user_id, guild_id |-> guild_id, timestamp |-> now,
                difficulty |-> difficulty, version |-> version, seconds |-> seconds]
    IN  IF found # {}
        THEN [table |-> table, solve |-> CHOOSE s \in found : TRUE, created |-> FALSE]
        ELSE [table |-> table \cup {new}, solve |-> new, created |-> TRUE]

\* the store part of on_pip_solve
pip_upsert(table, user_id, guild_id, version, difficulty, seconds, now) ==
    LET r == pip_get_or_create(table, user_id, guild_id, version, difficulty, seconds, now)
    IN  IF ~r.created /\ r.solve.seconds # seconds
        THEN [table |-> save(r.table, r.solve, [r.solve EXCEPT !.seconds = seconds]),
              created |-> r.created, saved |-> TRUE]
        ELSE [table |-> r.table, created |-> r.created, saved |-> FALSE]

----------------------------------------------------------------------------
(* Leaderboards.                                                           *)

\* ORDER BY seconds ASC, timestamp ASC: a may come before b
order_by(a, b) ==
    a.seconds < b.seconds \/ (a.seconds = b.seconds /\ a.timestamp <= b.timestamp)

\* the results a sorted query over the rows S may return: rows equal in both
\* sort columns come in any order
Ordered(S) ==
    {q \in [1..Cardinality(S) -> S] :
        /\ \A i, j \in 1..Cardinality(S) : i # j => q[i] # q[j]
        /\ \A i, j \in 1..Cardinality(S) : i < j => order_by(q[i], q[j])}

\* a variant that filters by guild only
mini_filter_guild(table, guild_id, date) ==
    Ordered({s \in table : s.guild_id = guild_id})

\* Solve.filter(guild_id=guild.id, date=date).order_by(...)
mini_filter(table, guild_id, date) ==
    Ordered({s \in table : s.guild_id = guild_id /\ s.date = date})

\* Solve.filter(guild_id=guild.id, difficulty=difficulty, version=version).order_by(...)
pip_filter(table, guild_id, version, difficulty) ==
    Ordered({s \in table : /\ s.guild_id = guild_id /\ s.difficulty = difficulty
                           /\ s.version = version})

\* a variant that falls back to the id of a user who is no member
get_member_or_id(members, user_id) == user_id

\* guild.get_member(user_id) with the members the guild has in its cache
get_member(members, user_id) == IF user_id \in members THEN user_id ELSE NoMember

\* a variant that moves on at every solve that is not faster than the last
next_position_each(position, last_seconds, seconds) ==
    IF last_seconds # None /\ seconds >= last_seconds THEN position + 1 ELSE position

\* the position of the next solve in the loop of get_leaderboard
next_position(position, last_seconds, seconds) ==
    IF last_seconds # None /\ seconds > last_seconds THEN position + 1 ELSE position

RECURSIVE get_leaderboard_loop(_, _, _, _, _)
\* the loop of get_leaderboard from the i-th solve on
get_leaderboard_loop(solves_, members, i, position, last_seconds) ==
    IF i > Len(solves_) THEN <<>>
    ELSE LET solve == solves_[i]
             p == next_position(position, last_seconds, solve.seconds)
         IN  <<[position |-> p, member |-> get_member(members, solve.user_id),
                seconds |-> solve.seconds]>>
             \o get_leaderboard_loop(solves_, members, i + 1, p, solve.seconds)

\* the entries of the Leaderboard that get_leaderboard returns for the query
\* result solves_
get_leaderboard(solves_, members) == get_leaderboard_loop(solves_, members, 1, 1, None)

\* one row of Leaderboard.render
render_row(entry) ==
    Str(entry.position) \o <<". ", DisplayName[entry.member], " (">>
        \o format_time(entry.seconds) \o <<")">>
        \o (IF entry.position = 1 THEN <<" :crown:">> ELSE <<>>)

RECURSIVE join_rows(_, _)
\* "\n".join(rows) from the i-th entry on
join_rows(entries, i) ==
    IF i > Len(entries) THEN <<>>
    ELSE IF i = Len(entries) THEN render_row(entries[i])
    ELSE render_row(entries[i]) \o <<"\n">> \o join_rows(entries, i + 1)

\* entry.member.display_name raises AttributeError on a member that is None
render_raises(entries) == \E i \in 1..Len(entries) : entries[i].member = NoMember

\* a variant without the case of no entries
mini_render_rows(date, entries) == join_rows(entries, 1)

\* Leaderboard.render of minibot
mini_render(date, entries) ==
    IF entries = <<>> THEN <<"No leaderboard for ">> \o format_date(date)
    ELSE join_rows(entries, 1)

\* Leaderboard.render of pipbot
pip_render(version, entries) ==
    IF entries = <<>> THEN <<"No leaderboard for ">> \o Str(version)
    ELSE join_rows(entries, 1)

\* the loop over the entries in on_mini_crossword_solve and on_pip_solve:
\* entry.member.id raises AttributeError on a first-place member that is None
color_raises(entries) ==
    \E i \in 1..Len(entries) : entries[i].position = 1 /\ entries[i].member = NoMember

\* a variant that looks at the first entry only
color_of_first(entries, author) ==
    IF entries # <<>> /\ entries[1].member = author THEN "gold" ELSE "None"

\* the colour that loop leaves: gold when an entry at position 1 is the author's
color(entries, author) ==
    IF \E i \in 1..Len(entries) : entries[i].position = 1 /\ entries[i].member = author
    THEN "gold" ELSE "None"

----------------------------------------------------------------------------
(* Messages and units of work.                                             *)

\* a message: its author, guild and content; form is the pattern the content
\* matches first ("badge" and "new" in minibot, "pips" in pipbot, "command"
\* for the command prefix, "other" for the rest), and the other fields are
\* the groups of the match or the words of the command
NoMessage == [author |-> 0, author_bot |-> FALSE, guild |-> 0, form |-> "",
              d |-> <<>>, t |-> 0, c |-> "", time |-> <<>>,
              version |-> 0, difficulty |-> "", parts |-> <<>>]

NoReply == [title |-> <<>>, description |-> <<>>, color |-> "None"]

\* a unit that handles no message.  The fields of a unit are the locals of
\* on_message and of the functions it calls, and what the unit has sent:
\* pc names the await at which the unit is suspended
Idle == [pc |-> "idle", message |-> NoMessage, image |-> "", base |-> "",
         key |-> <<>>, seconds |-> 0, checksum |-> "",
         created |-> FALSE, saved |-> FALSE,
         query |-> <<>>, entries |-> <<>>, reply |-> NoReply,
         reaction |-> FALSE, deleted |-> FALSE, raised_in |-> "",
         rows |-> <<>>, display_names |-> {}, csv |-> <<>>, lookups |-> 0,
         members |-> {}]

\* a slot that handles no message takes the next one
Free(u) == units[u].pc = "idle"

\* a unit after an exception raised in function f: its frame is gone
Raised(f) == [Idle EXCEPT !.pc = "raised", !.raised_in = f]

\* the results a query without ORDER BY over the rows S may return
Unordered(S) ==
    {q \in [1..Cardinality(S) -> S] :
        \A i, j \in 1..Cardinality(S) : i # j => q[i] # q[j]}

mini_header == <<"display_name", "timestamp", "date", "seconds">>
pip_header == <<"display_name", "timestamp", "version", "difficulty", "seconds">>

\* writer.writerow of the dump command for one solve
mini_writerow(solve) ==
    <<DisplayName[solve.user_id], solve.timestamp, solve.date, solve.seconds>>

pip_writerow(solve) ==
    <<DisplayName[solve.user_id], solve.timestamp, solve.version, solve.difficulty,
      solve.seconds>>

writerow(solve) == IF bot = "minibot" THEN mini_writerow(solve) ELSE pip_writerow(solve)

\* a variant without display_names.get: it fetches the user of every row
dump_loop_fetches(frame) ==
    IF frame.rows = <<>> THEN [frame EXCEPT !.pc = "reply"]
    ELSE [frame EXCEPT !.pc = "fetch_user", !.lookups = @ + 1]

RECURSIVE dump_loop(_)
\* the loop of the dump command over the rows left, up to the next await:
\* fetch_user for a user whose name is not in display_names yet, or the reply
\* with the file after the last row
dump_loop(frame) ==
    IF frame.rows = <<>> THEN [frame EXCEPT !.pc = "reply"]
    ELSE IF Head(frame.rows).user_id \in frame.display_names
    THEN dump_loop([frame EXCEPT !.csv = Append(@, writerow(Head(frame.rows))),
                                 !.rows = Tail(@)])
    ELSE [frame EXCEPT !.pc = "fetch_user", !.lookups = @ + 1]

Init ==
    /\ bot \in {"minibot", "pipbot"}
    /\ solves = {}
    /\ units = [u \in Units |-> Idle]
    /\ inbox = <<>>

----------------------------------------------------------------------------
(* minibot: Bot.on_message up to its first await.                          *)

\* a variant that reads the rows of the leaderboard before the upsert
on_mini_crossword_solve_reads_first(u, frame, date, seconds, checksum, now) ==
    LET r == mini_upsert(solves, frame.message.author, frame.message.guild,
                         date, seconds, checksum, now)
    IN  /\ solves' = r.table
        /\ \E q \in mini_filter(solves, frame.message.guild, date) :
               units' = [units EXCEPT ![u] =
                            [frame EXCEPT !.pc = "get_or_fetch_members", !.key = date,
                                          !.seconds = seconds, !.checksum = checksum,
                                          !.created = r.created, !.saved = r.saved,
                                          !.query = q]]

\* on_mini_crossword_solve up to the await in get_leaderboard: the upsert and
\* the query, whose rows are read before get_or_fetch_members is awaited
on_mini_crossword_solve(u, frame, date, seconds, checksum, now) ==
    LET r == mini_upsert(solves, frame.message.author, frame.message.guild,
                         date, seconds, checksum, now)
    IN  /\ solves' = r.table
        /\ \E q \in mini_filter(solves', frame.message.guild, date) :
               units' = [units EXCEPT ![u] =
                            [frame EXCEPT !.pc = "get_or_fetch_members", !.key = date,
                                          !.seconds = seconds, !.checksum = checksum,
                                          !.created = r.created, !.saved = r.saved,
                                          !.query = q]]

\* the "%nyt " commands
mini_command(u, frame, today_) ==
    LET parts == frame.message.parts IN
    IF Len(parts) = 0 THEN UNCHANGED <<solves, units>>
    ELSE IF parts[1] \in {"l", "leaderboard"} THEN
        IF Len(parts) >= 2 /\ ~strptime_ymd_ok(frame.message.d)
        THEN \* except ValueError: await message.reply()
             /\ units' = [units EXCEPT ![u] = [frame EXCEPT !.pc = "reply"]]
             /\ UNCHANGED solves
        ELSE LET date == IF Len(parts) >= 2 THEN strptime_ymd(frame.message.d)
                         ELSE today_
             IN  /\ \E q \in mini_filter(solves, frame.message.guild, date) :
                        units' = [units EXCEPT ![u] =
                                     [frame EXCEPT !.pc = "get_or_fetch_members",
                                                   !.key = date, !.query = q]]
                 /\ UNCHANGED solves
    ELSE IF parts[1] \in {"d", "dump"} THEN
        /\ \E rows \in Unordered({s \in solves : s.guild_id = frame.message.guild}) :
               units' = [units EXCEPT ![u] =
                            dump_loop([frame EXCEPT !.rows = rows,
                                                    !.csv = <<mini_header>>])]
        /\ UNCHANGED solves
    ELSE UNCHANGED <<solves, units>>

\* a variant that takes every author for a user
is_bot_never(message) == FALSE

\* message.author.bot
is_bot(message) == message.author_bot

\* a variant with the comparison inverted
images_differ(image, base) == image # base

\* get_mini_crossword_image(c, d, t) == get_mini_crossword_image_base()
images_equal(image, base) == image = base

\* Bot.on_message of minibot for a message, with what the two image requests
\* return, the clock, and the day it is in US/Eastern
mini_on_message(u, message, image, base, now, today_) ==
    LET frame == [Idle EXCEPT !.message = message] IN
    /\ bot = "minibot"
    /\ Free(u)
    /\ UNCHANGED bot
    /\ IF is_bot(message) THEN UNCHANGED <<solves, units>>
       ELSE IF message.form = "badge" THEN
           LET badge == [frame EXCEPT !.image = image, !.base = base] IN
           IF images_equal(image, base)
           THEN \* await message.add_reaction(NO ENTRY SIGN)
                /\ units' = [units EXCEPT ![u] =
                                [badge EXCEPT !.pc = "add_reaction", !.reaction = TRUE]]
                /\ UNCHANGED solves
           ELSE IF ~strptime_ymd_ok(message.d)
           THEN \* strptime raises ValueError
                /\ units' = [units EXCEPT ![u] =
                                [badge EXCEPT !.pc = "raised", !.raised_in = "on_message"]]
                /\ UNCHANGED solves
           ELSE on_mini_crossword_solve(u, badge, strptime_ymd(message.d),
                                        message.t, message.c, now)
       ELSE IF message.form = "new" THEN
           IF ~strptime_mdy_ok(message.d)
           THEN /\ units' = [units EXCEPT ![u] =
                                [frame EXCEPT !.pc = "raised", !.raised_in = "on_message"]]
                /\ UNCHANGED solves
           ELSE on_mini_crossword_solve(u, frame, strptime_mdy(message.d),
                                        DurationSeconds(message.time), "", now)
       ELSE IF message.form = "command" THEN mini_command(u, frame, today_)
       ELSE UNCHANGED <<solves, units>>

----------------------------------------------------------------------------
(* pipbot: Bot.on_message up to its first await.                           *)

on_pip_solve(u, frame, version, difficulty, seconds, now) ==
    LET r == pip_upsert(solves, frame.message.author, frame.message.guild,
                        version, difficulty, seconds, now)
    IN  /\ solves' = r.table
        /\ \E q \in pip_filter(solves', frame.message.guild, version, difficulty) :
               units' = [units EXCEPT ![u] =
                            [frame EXCEPT !.pc = "get_or_fetch_members",
                                          !.key = <<version, difficulty>>,
                                          !.seconds = seconds,
                                          !.created = r.created, !.saved = r.saved,
                                          !.query = q]]

\* the "%pip " commands
pip_command(u, frame) ==
    LET parts == frame.message.parts IN
    IF Len(parts) = 0 THEN UNCHANGED <<solves, units>>
    ELSE IF parts[1] \in {"d", "dump"} THEN
        /\ \E rows \in Unordered({s \in solves : s.guild_id = frame.message.guild}) :
               units' = [units EXCEPT ![u] =
                            dump_loop([frame EXCEPT !.rows = rows,
                                                    !.csv = <<pip_header>>])]
        /\ UNCHANGED solves
    ELSE \* await message.reply("Commands are ...")
        /\ units' = [units EXCEPT ![u] =
                        [frame EXCEPT !.pc = "reply",
                                      !.reply.description = <<"Commands are">>]]
        /\ UNCHANGED solves

\* Bot.on_message of pipbot for a message, with the clock
pip_on_message(u, message, now) ==
    LET frame == [Idle EXCEPT !.message = message] IN
    /\ bot = "pipbot"
    /\ Free(u)
    /\ UNCHANGED bot
    /\ IF is_bot(message) THEN UNCHANGED <<solves, units>>
       ELSE IF message.form = "pips" THEN
           on_pip_solve(u, frame, message.version, message.difficulty,
                        DurationSeconds(message.time), now)
       ELSE IF message.form = "command" THEN pip_command(u, frame)
       ELSE UNCHANGED <<solves, units>>

----------------------------------------------------------------------------
(* The continuations after each await.                                     *)

\* whether the unit handles a solve (and not a command)
IsSolve(frame) == frame.message.form \in {"badge", "new", "pips"}

render(frame, entries) ==
    IF bot = "minibot" THEN mini_render(frame.key, entries)
    ELSE pip_render(frame.key[1], entries)

\* the title of the embed
mini_title(frame) ==
    <<DisplayName[frame.message.author], " solved the ">> \o format_date(frame.key)
        \o <<" mini in ">> \o format_time(frame.seconds)

pip_title(frame) ==
    <<DisplayName[frame.message.author], " solved the #">> \o Str(frame.key[1])
        \o <<" ", frame.key[2], " in ">> \o format_time(frame.seconds)

title(frame) == IF bot = "minibot" THEN mini_title(frame) ELSE pip_title(frame)

\* a variant that takes back the rows of the key of a solve whose leaderboard
\* fails
members_fetched_rolls_back(u, ok, members) ==
    LET frame == units[u]
        entries == get_leaderboard(frame.query, members)
        fails == ~ok \/ (IsSolve(frame) /\ color_raises(entries)) \/ render_raises(entries)
    IN  /\ frame.pc = "get_or_fetch_members"
        /\ ok \/ frame.query # <<>>
        /\ UNCHANGED bot
        /\ solves' = IF fails /\ IsSolve(frame)
                     THEN {s \in solves : s.user_id # frame.message.author}
                     ELSE solves
        /\ units' = [units EXCEPT ![u] =
              IF fails THEN Raised("get_or_fetch_members")
              ELSE [frame EXCEPT
                      !.pc = "send", !.entries = entries, !.members = members,
                      !.reply = [title |-> IF IsSolve(frame) THEN title(frame) ELSE <<>>,
                                 description |-> render(frame, entries),
                                 color |-> IF IsSolve(frame)
                                           THEN color(entries, frame.message.author)
                                           ELSE "None"]]]

\* a variant that deletes the message of a solve before it sends the reply
members_fetched_deletes(u, ok, members) ==
    LET frame == units[u]
        entries == get_leaderboard(frame.query, members)
    IN  /\ frame.pc = "get_or_fetch_members"
        /\ ok \/ frame.query # <<>>
        /\ UNCHANGED <<bot, solves>>
        /\ units' = [units EXCEPT ![u] =
              IF ~ok THEN Raised("get_or_fetch_members")
              ELSE IF IsSolve(frame) /\ color_raises(entries)
                   THEN Raised("on_solve")
              ELSE IF render_raises(entries) THEN Raised("render")
              ELSE [frame EXCEPT
                      !.pc = "send", !.entries = entries, !.members = members,
                      !.deleted = IsSolve(frame),
                      !.reply = [title |-> IF IsSolve(frame) THEN title(frame) ELSE <<>>,
                                 description |-> render(frame, entries),
                                 color |-> IF IsSolve(frame)
                                           THEN color(entries, frame.message.author)
                                           ELSE "None"]]]

\* get_or_fetch_members returns (ok, with members the guild's cache after it)
\* or raises, which it can only when there is a member to fetch;
\* get_leaderboard then builds the entries from the rows read before the
\* await, the caller renders them and awaits the send
members_fetched(u, ok, members) ==
    LET frame == units[u]
        entries == get_leaderboard(frame.query, members)
    IN  /\ frame.pc = "get_or_fetch_members"
        /\ ok \/ frame.query # <<>>
        /\ UNCHANGED <<bot, solves>>
        /\ units' = [units EXCEPT ![u] =
              IF ~ok THEN Raised("get_or_fetch_members")
              ELSE IF IsSolve(frame) /\ color_raises(entries)
                   THEN Raised("on_solve")
              ELSE IF render_raises(entries) THEN Raised("render")
              ELSE [frame EXCEPT
                      !.pc = "send", !.entries = entries, !.members = members,
                      !.reply = [title |-> IF IsSolve(frame) THEN title(frame) ELSE <<>>,
                                 description |-> render(frame, entries),
                                 color |-> IF IsSolve(frame)
                                           THEN color(entries, frame.message.author)
                                           ELSE "None"]]]

\* channel.send returns: a solve goes on to await message.delete(), the
\* leaderboard command ends
send_done(u) ==
    /\ units[u].pc = "send"
    /\ UNCHANGED <<bot, solves>>
    /\ units' = [units EXCEPT ![u] =
                    IF IsSolve(@) THEN [@ EXCEPT !.pc = "delete", !.deleted = TRUE]
                    ELSE Idle]

\* message.delete, message.add_reaction or message.reply returns: the unit ends
last_await_done(u) ==
    /\ units[u].pc \in {"delete", "add_reaction", "reply"}
    /\ UNCHANGED <<bot, solves>>
    /\ units' = [units EXCEPT ![u] = Idle]

\* the client's on_error reports the exception of a unit, and the unit ends
on_error(u) ==
    /\ units[u].pc = "raised"
    /\ UNCHANGED <<bot, solves>>
    /\ units' = [units EXCEPT ![u] = Idle]

\* fetch_user returns the user or raises; the loop of the dump goes on
user_fetched(u, ok) ==
    LET frame == units[u] IN
    /\ frame.pc = "fetch_user"
    /\ UNCHANGED <<bot, solves>>
    /\ units' = [units EXCEPT ![u] =
          IF ~ok THEN Raised("fetch_user")
          ELSE dump_loop([frame EXCEPT
                  !.display_names = @ \cup {Head(frame.rows).user_id},
                  !.csv = Append(@, writerow(Head(frame.rows))),
                  !.rows = Tail(@)])]

----------------------------------------------------------------------------
(* The messages that arrive.                                               *)

\* the numbers of a date as the badge link writes them (2024-04-20) and as
\* the sentence writes them (4/20/2024)
TextYmd(date) == <<date[1], date[2], date[3]>>
TextMdy(date) == <<date[2], date[3], date[1]>>

BadgeMessage(author, guild, date, t, c) ==
    [NoMessage EXCEPT !.author = author, !.guild = guild, !.form = "badge",
                      !.d = TextYmd(date), !.t = t, !.c = c]

NewMessage(author, guild, date, time) ==
    [NoMessage EXCEPT !.author = author, !.guild = guild, !.form = "new",
                      !.d = TextMdy(date), !.time = time]

PipsMessage(author, guild, puzzle, time) ==
    [NoMessage EXCEPT !.author = author, !.guild = guild, !.form = "pips",
                      !.version = puzzle[1], !.difficulty = puzzle[2], !.time = time]

\* a command; the word "date" stands for a date argument, whose numbers go
\* into field d
CommandMessage(author, guild, parts, date) ==
    [NoMessage EXCEPT !.author = author, !.guild = guild, !.form = "command",
                      !.parts = parts,
                      !.d = IF Len(parts) >= 2 THEN TextYmd(date) ELSE <<>>]

OtherMessage(author, guild) ==
    [NoMessage EXCEPT !.author = author, !.guild = guild, !.form = "other"]

FromBot(message, author_bot) == [message EXCEPT !.author_bot = author_bot]

\* messages come one at a time: the next one arrives when no unit is suspended
Sequential(u) == u = 1 /\ \A v \in Units : Free(v)

MiniBadge(u) ==
    \E post \in BadgePosts, t \in Seconds, c \in Checksums,
       image \in Images, base \in BaseImages, now \in Timestamps,
       author_bot \in BOOLEAN :
        mini_on_message(u, FromBot(BadgeMessage(post[1], post[2], post[3], t, c),
                                   author_bot),
                        image, base, now, D1)

MiniNew(u) ==
    \E post \in NewPosts, time \in Durations,
       now \in Timestamps, author_bot \in BOOLEAN :
        mini_on_message(u, FromBot(NewMessage(post[1], post[2], post[3], time),
                                   author_bot),
                        "", "", now, D1)

MiniCommand(u) ==
    \E a \in Authors, parts \in MiniCommands, date \in Dates \cup {BadDate},
       today_ \in Dates, author_bot \in BOOLEAN :
        mini_on_message(u, FromBot(CommandMessage(a[1], a[2], parts, date), author_bot),
                        "", "", 0, today_)

MiniOther(u) ==
    \E a \in Authors, author_bot \in BOOLEAN :
        mini_on_message(u, FromBot(OtherMessage(a[1], a[2]), author_bot), "", "", 0, D1)

PipSolve(u) ==
    \E post \in PipPosts, time \in Durations, now \in Timestamps,
       author_bot \in BOOLEAN :
        pip_on_message(u, FromBot(PipsMessage(post[1], post[2], post[3], time),
                                  author_bot), now)

PipCommand(u) ==
    \E a \in Authors, parts \in PipCommands, author_bot \in BOOLEAN :
        pip_on_message(u, FromBot(CommandMessage(a[1], a[2], parts, D1), author_bot), 0)

PipOther(u) ==
    \E a \in Authors, author_bot \in BOOLEAN :
        pip_on_message(u, FromBot(OtherMessage(a[1], a[2]), author_bot), 0)

\* the users of the rows of a query result
UsersOf(q) == {q[i].user_id : i \in 1..Len(q)}

\* of the guild's cache only the users that were asked for matter
MembersFetched ==
    /\ \E u \in Units, ok \in BOOLEAN :
           \E members \in SUBSET UsersOf(units[u].query) :
               members_fetched(u, ok, members)
    /\ UNCHANGED inbox

SendDone == (\E u \in Units : send_done(u)) /\ UNCHANGED inbox

LastAwaitDone == (\E u \in Units : last_await_done(u)) /\ UNCHANGED inbox

UserFetched == (\E u \in Units, ok \in BOOLEAN : user_fetched(u, ok)) /\ UNCHANGED inbox

OnError == (\E u \in Units : on_error(u)) /\ UNCHANGED inbox

Next ==
    \/ \E u \in Units : Sequential(u) /\ MiniBadge(u) /\ UNCHANGED inbox
    \/ \E u \in Units : Sequential(u) /\ MiniNew(u) /\ UNCHANGED inbox
    \/ \E u \in Units : Sequential(u) /\ MiniCommand(u) /\ UNCHANGED inbox
    \/ \E u \in Units : Sequential(u) /\ MiniOther(u) /\ UNCHANGED inbox
    \/ \E u \in Units : Sequential(u) /\ PipSolve(u) /\ UNCHANGED inbox
    \/ \E u \in Units : Sequential(u) /\ PipCommand(u) /\ UNCHANGED inbox
    \/ \E u \in Units : Sequential(u) /\ PipOther(u) /\ UNCHANGED inbox
    \/ MembersFetched
    \/ SendDone
    \/ LastAwaitDone
    \/ OnError

\* solves, leaderboard queries and the other commands, one message at a time
Spec == Init /\ [][Next]_vars

----------------------------------------------------------------------------
(* Three users on one puzzle of one guild.                                 *)

RankSolve(u) ==
    \/ \E post \in RankPosts, t \in RankSeconds, now \in Timestamps :
           mini_on_message(u, BadgeMessage(post[1], post[2], D1, t, "514e"),
                           "badge", "blank", now, D1)
    \/ \E post \in RankPosts, t \in RankSeconds, now \in Timestamps :
           pip_on_message(u, PipsMessage(post[1], post[2], P1, <<0, t>>), now)

NextRank ==
    \/ \E u \in Units : Sequential(u) /\ RankSolve(u) /\ UNCHANGED inbox
    \/ MembersFetched
    \/ SendDone
    \/ LastAwaitDone
    \/ OnError

SpecRank == Init /\ [][NextRank]_vars

----------------------------------------------------------------------------
(* The run of section 8 of the specification: in one guild and for one     *)
(* date, A posts 52 seconds, B posts 40, A posts 52 again, A posts 30, all *)
(* as badge links whose image is not the blank one.                        *)

Script(guild, date, c) ==
    <<BadgeMessage(1, guild, date, 52, c[1]), BadgeMessage(2, guild, date, 40, c[2]),
      BadgeMessage(1, guild, date, 52, c[3]), BadgeMessage(1, guild, date, 30, c[4])>>

InitE2E ==
    /\ bot = "minibot"
    /\ solves = {}
    /\ units = [u \in Units |-> Idle]
    /\ inbox \in {Script(guild, date, c) :
                    guild \in Guilds, date \in Dates, c \in [1..4 -> ScriptChecksums]}

Deliver(u) ==
    /\ inbox # <<>>
    /\ inbox' = Tail(inbox)
    /\ \E now \in Timestamps :
           mini_on_message(u, Head(inbox), "badge", "blank", now, D1)

NextE2E ==
    \/ \E u \in Units : Sequential(u) /\ Deliver(u)
    \/ MembersFetched
    \/ SendDone
    \/ LastAwaitDone
    \/ OnError

SpecE2E == InitE2E /\ [][NextE2E]_vars

----------------------------------------------------------------------------
(* The dump command, over a table filled by solves of one time.            *)

ExportSolve(u) ==
    \/ \E post \in MiniPosts, t \in Seconds :
           mini_on_message(u, BadgeMessage(post[1], post[2], post[3], t, "514e"),
                           "badge", "blank", 0, D1)
    \/ \E post \in PipPosts, time \in Durations :
           pip_on_message(u, PipsMessage(post[1], post[2], post[3], time), 0)

ExportCommand(u) ==
    \/ \E a \in Authors, parts \in DumpCommands \cup {<<"l">>} :
           mini_on_message(u, CommandMessage(a[1], a[2], parts, D1), "", "", 0, D1)
    \/ \E a \in Authors, parts \in DumpCommands :
           pip_on_message(u, CommandMessage(a[1], a[2], parts, D1), 0)

NextExport ==
    \/ \E u \in Units : Sequential(u) /\ ExportSolve(u) /\ UNCHANGED inbox
    \/ \E u \in Units : Sequential(u) /\ ExportCommand(u) /\ UNCHANGED inbox
    \/ MembersFetched
    \/ SendDone
    \/ LastAwaitDone
    \/ UserFetched
    \/ OnError

SpecExport == Init /\ [][NextExport]_vars

----------------------------------------------------------------------------
(* Units of work side by side: a message is taken by any free unit while   *)
(* the other unit is suspended at an await, two users posting solves of    *)
(* one puzzle in one guild.                                                *)

ConcSolve(u) ==
    \/ \E post \in ConcPosts, t \in Seconds, now \in Timestamps :
           mini_on_message(u, BadgeMessage(post[1], post[2], D1, t, "514e"),
                           "badge", "blank", now, D1)
    \/ \E post \in ConcPosts, time \in Durations, now \in Timestamps :
           pip_on_message(u, PipsMessage(post[1], post[2], P1, time), now)

NextConc ==
    \/ \E u \in Units : ConcSolve(u) /\ UNCHANGED inbox
    \/ MembersFetched
    \/ SendDone
    \/ LastAwaitDone
    \/ OnError

SpecConc == Init /\ [][NextConc]_vars

----------------------------------------------------------------------------
(* Three messages in a row, of users and of bots, in every form the bot    *)
(* tells apart; the last one is the message of a bot.                      *)

Feed ==
    IF bot = "minibot"
    THEN {BadgeMessage(1, 1, D1, 30, "514e"), NewMessage(1, 1, D1, <<0, 52>>),
          CommandMessage(2, 1, <<"l">>, D1), OtherMessage(2, 1)}
    ELSE {PipsMessage(1, 1, P1, <<0, 30>>), PipsMessage(1, 1, P1, <<0, 0, 52>>),
          CommandMessage(2, 1, <<"l">>, D1), OtherMessage(2, 1)}

InitFeed ==
    /\ bot \in {"minibot", "pipbot"}
    /\ solves = {}
    /\ units = [u \in Units |-> Idle]
    /\ inbox \in {<<FromBot(m1, b1), FromBot(m2, b2), FromBot(m3, TRUE)>> :
                    m1 \in Feed, m2 \in Feed, m3 \in Feed, b1 \in BOOLEAN, b2 \in BOOLEAN}

\* the next message of the feed goes to on_message
Take(u) ==
    /\ inbox # <<>>
    /\ inbox' = Tail(inbox)
    /\ \E now \in Timestamps, image \in Images :
           \/ mini_on_message(u, Head(inbox), image, "blank", now, D1)
           \/ pip_on_message(u, Head(inbox), now)

NextFeed ==
    \/ \E u \in Units : Sequential(u) /\ Take(u)
    \/ MembersFetched
    \/ SendDone
    \/ LastAwaitDone
    \/ OnError

SpecFeed == InitFeed /\ [][NextFeed]_vars

----------------------------------------------------------------------------
(* One duration, posted in a sentence to minibot or in a pips result to    *)
(* pipbot.  inbox[1] is the text of the duration as the message has it,    *)
(* and inbox[2] the numbers it was written from (none for a text that is   *)
(* no duration of two or three components), which the bot does not see.    *)

\* "m:ss" and "h:mm:ss" as the games write them
DurationText(numbers) ==
    IF Len(numbers) = 2
    THEN Str(numbers[1]) \o <<":">> \o Pad(numbers[2], 2)
    ELSE Str(numbers[1]) \o <<":">> \o Pad(numbers[2], 2) \o <<":">> \o Pad(numbers[3], 2)

InitDuration ==
    /\ bot \in {"minibot", "pipbot"}
    /\ solves = {}
    /\ units = [u \in Units |-> Idle]
    /\ inbox \in {<<DurationText(numbers), numbers>> : numbers \in TwoNumbers \cup ThreeNumbers}
                 \cup {<<text, <<>>>> : text \in NoDurations}

\* a text that the pattern does not match makes a message of no known form
PostDuration(u) ==
    /\ UNCHANGED inbox
    /\ \E now \in Timestamps :
           IF duration_match(inbox[1])
           THEN \/ mini_on_message(u, NewMessage(1, 1, D1, duration_numbers(inbox[1])),
                                   "", "", now, D1)
                \/ pip_on_message(u, PipsMessage(1, 1, P1, duration_numbers(inbox[1])), now)
           ELSE \/ mini_on_message(u, OtherMessage(1, 1), "", "", now, D1)
                \/ pip_on_message(u, OtherMessage(1, 1), now)

NextDuration ==
    \/ \E u \in Units : Sequential(u) /\ PostDuration(u)
    \/ MembersFetched
    \/ SendDone
    \/ LastAwaitDone
    \/ OnError

SpecDuration == InitDuration /\ [][NextDuration]_vars

----------------------------------------------------------------------------
(* Three users of one guild post solves of one puzzle with times of 5      *)
(* seconds, of 10 minutes and of 1 hour, 2 minutes and 3 seconds.          *)

RenderSolve(u) ==
    \/ \E post \in RankPosts, t \in RenderSeconds, now \in Timestamps :
           mini_on_message(u, BadgeMessage(post[1], post[2], D1, t, "514e"),
                           "badge", "blank", now, D1)
    \/ \E post \in RankPosts, time \in RenderDurations, now \in Timestamps :
           pip_on_message(u, PipsMessage(post[1], post[2], P1, time), now)

NextRender ==
    \/ \E u \in Units : Sequential(u) /\ RenderSolve(u) /\ UNCHANGED inbox
    \/ MembersFetched
    \/ SendDone
    \/ LastAwaitDone
    \/ OnError

SpecRender == Init /\ [][NextRender]_vars

----------------------------------------------------------------------------
(* User A posts two solves of one puzzle, then user B of the same guild    *)
(* asks for the leaderboard of that puzzle: with the command in minibot,   *)
(* with a solve of B's own in both programs.  A unit takes the next        *)
(* message while the other is suspended or has raised.                     *)

FirstTwo ==
    IF bot = "minibot" THEN {BadgeMessage(1, 1, D1, t, "514e") : t \in Seconds}
    ELSE {PipsMessage(1, 1, P1, time) : time \in Durations}

Third ==
    IF bot = "minibot"
    THEN {BadgeMessage(2, 1, D1, 30, "514e"), CommandMessage(2, 1, <<"l">>, D1)}
    ELSE {PipsMessage(2, 1, P1, <<0, 30>>)}

InitThree ==
    /\ bot \in {"minibot", "pipbot"}
    /\ solves = {}
    /\ units = [u \in Units |-> Idle]
    /\ inbox \in {<<m1, m2, m3>> : m1 \in FirstTwo, m2 \in FirstTwo, m3 \in Third}

NextThree ==
    \/ \E u \in Units : Take(u)
    \/ MembersFetched
    \/ SendDone
    \/ LastAwaitDone
    \/ OnError

SpecThree == InitThree /\ [][NextThree]_vars

----------------------------------------------------------------------------
(* What the claims speak of.                                               *)

\* the unique key of a row: user, guild and puzzle
RowKey(s) == IF bot = "minibot" THEN <<s.user_id, s.guild_id, s.date>>
             ELSE <<s.user_id, s.guild_id, <<s.version, s.difficulty>>>>

\* the key of the solve that a unit handles
UnitKey(frame) == <<frame.message.author, frame.message.guild, frame.key>>

RowsOf(table, key) == {s \in table : RowKey(s) = key}

\* the rows of the guild and puzzle of the leaderboard a unit builds
ScopeRows(table, frame) ==
    {s \in table : RowKey(s)[2] = frame.message.guild /\ RowKey(s)[3] = frame.key}

\* the unit handles a solve that went through the upsert
InFlightSolve(frame) ==
    IsSolve(frame) /\ frame.pc \in {"get_or_fetch_members", "send", "delete"}

\* the unit has built its leaderboard and sent the reply
Replied(frame) == frame.pc \in {"send", "delete"}

\* this step is on_message accepting a solve in unit u
Accepted(u) == units[u].pc = "idle" /\ InFlightSolve(units'[u])

----------------------------------------------------------------------------
(* C1: the table never holds two rows with the same user, guild and puzzle; *)
(* a solve that was accepted has exactly one row under its key, and a key   *)
(* that has a row keeps exactly one row.                                    *)

UniqueKeys == \A a, b \in solves : RowKey(a) = RowKey(b) => a = b

AcceptedHasOneRow ==
    \A u \in Units : InFlightSolve(units[u])
                        => Cardinality(RowsOf(solves, UnitKey(units[u]))) = 1

KeysStay == \A s \in solves : Cardinality(RowsOf(solves', RowKey(s))) = 1

C1_StoreUniqueness == [](UniqueKeys /\ AcceptedHasOneRow) /\ [][KeysStay]_vars

\* a solve for a key that had its row already, in a table of three rows or more
C1_Witness ==
    \E u \in Units : /\ InFlightSolve(units[u])
                     /\ ~units[u].created
                     /\ Cardinality(solves) >= 3

----------------------------------------------------------------------------
(* C2: an accepted solve for a key that has a row leaves exactly one row    *)
(* under that key, with the seconds submitted, leaves the other rows as     *)
(* they were, and leaves the number of rows unchanged.                      *)

C2_UpsertIdempotence ==
    [][\A u \in Units :
         Accepted(u) /\ RowsOf(solves, UnitKey(units'[u])) # {}
         => LET key == UnitKey(units'[u]) IN
            /\ Cardinality(solves') = Cardinality(solves)
            /\ Cardinality(RowsOf(solves', key)) = 1
            /\ \A s \in RowsOf(solves', key) : s.seconds = units'[u].seconds
            /\ solves' \ RowsOf(solves', key) = solves \ RowsOf(solves, key)]_vars

\* a second solve with other seconds has overwritten its row
C2_Witness ==
    \E u \in Units : /\ InFlightSolve(units[u])
                     /\ units[u].saved
                     /\ Cardinality(solves) >= 2

----------------------------------------------------------------------------
(* C3: an accepted solve whose seconds are the seconds stored under its key *)
(* writes nothing: the table is unchanged, whatever checksum it carries.    *)

C3_RepostNoWrite ==
    [][\A u \in Units :
         /\ Accepted(u)
         /\ \E s \in RowsOf(solves, UnitKey(units'[u])) : s.seconds = units'[u].seconds
         => /\ solves' = solves
            /\ ~units'[u].created
            /\ ~units'[u].saved]_vars

\* a solve posted again with the same seconds and another checksum, at another
\* time of the clock: the row keeps its checksum
C3_Witness ==
    \E u \in Units :
        /\ bot = "minibot"
        /\ InFlightSolve(units[u])
        /\ ~units[u].created /\ ~units[u].saved
        /\ \E s \in RowsOf(solves, UnitKey(units[u])) :
               s.seconds = units[u].seconds /\ s.checksum # units[u].checksum

----------------------------------------------------------------------------
(* C4: after an accepted solve the row of its key holds the seconds just    *)
(* submitted, smaller or larger than before; in minibot the checksum is     *)
(* overwritten when the seconds change; the rows of other keys, and the     *)
(* table in every step that accepts no solve, stay as they are.             *)

C4_LatestWins ==
    [][/\ \A u \in Units :
            Accepted(u)
            => LET key == UnitKey(units'[u]) IN
               /\ RowsOf(solves', key) # {}
               /\ \A s \in RowsOf(solves', key) : s.seconds = units'[u].seconds
               /\ solves' \ RowsOf(solves', key) = solves \ RowsOf(solves, key)
               /\ (bot = "minibot"
                   /\ \E s \in RowsOf(solves, key) : s.seconds # units'[u].seconds)
                  => \A s \in RowsOf(solves', key) : s.checksum = units'[u].checksum
       /\ (~ \E u \in Units : Accepted(u)) => solves' = solves]_vars

\* minibot has overwritten a row with the larger time 52 and an empty checksum
C4_Witness ==
    \E u \in Units :
        /\ bot = "minibot"
        /\ InFlightSolve(units[u])
        /\ units[u].saved
        /\ units[u].seconds = 52
        /\ units[u].checksum = ""
        /\ \A s \in RowsOf(solves, UnitKey(units[u])) :
               s.seconds = 52 /\ s.checksum = ""

----------------------------------------------------------------------------
(* C5: a badge link whose image equals the base image changes no row, gets *)
(* the reaction, is not deleted and gets no leaderboard and no reply; a    *)
(* badge link whose image differs and whose date text is a date of the     *)
(* calendar goes through the upsert and has its row; one whose date text is *)
(* no date of the calendar raises in on_message and changes no row.        *)

\* this step is on_message taking the badge link of a user in unit u
BadgeArrives(u) ==
    units[u].pc = "idle" /\ units'[u].pc # "idle" /\ units'[u].message.form = "badge"

Rejected(u) ==
    /\ solves' = solves
    /\ units'[u].pc = "add_reaction"
    /\ units'[u].reaction
    /\ ~units'[u].deleted
    /\ units'[u].query = <<>> /\ units'[u].entries = <<>>
    /\ units'[u].reply = NoReply

PassedOn(u) ==
    /\ InFlightSolve(units'[u])
    /\ \E s \in solves' : /\ s.user_id = units'[u].message.author
                          /\ s.guild_id = units'[u].message.guild
                          /\ s.date = units'[u].key
                          /\ s.seconds = units'[u].message.t

\* after the reaction the unit ends: no row changes, nothing is sent or deleted
ReactionEnds(u) ==
    units[u].pc = "add_reaction" => solves' = solves /\ units'[u] \in {units[u], Idle}

C5_AntiSpoof ==
    [][\A u \in Units :
         /\ BadgeArrives(u)
            => IF units'[u].image = units'[u].base THEN Rejected(u)
               ELSE IF strptime_ymd_ok(units'[u].message.d) THEN PassedOn(u)
               ELSE /\ solves' = solves
                    /\ units'[u].pc = "raised"
                    /\ ~units'[u].reaction /\ ~units'[u].deleted
                    /\ units'[u].reply = NoReply
         /\ ReactionEnds(u)]_vars

\* the claim as stated: every badge link whose images differ is passed on
C5_AlwaysPassedOn ==
    [][\A u \in Units :
         BadgeArrives(u)
         => IF units'[u].image = units'[u].base THEN Rejected(u) ELSE PassedOn(u)]_vars

\* a rejected badge link for a key whose row holds other seconds: the row stays
C5_Witness ==
    \E u \in Units :
        /\ units[u].pc = "add_reaction"
        /\ units[u].reaction
        /\ \E s \in solves : /\ s.user_id = units[u].message.author
                             /\ s.guild_id = units[u].message.guild
                             /\ s.date = strptime_ymd(units[u].message.d)
                             /\ s.seconds # units[u].message.t

----------------------------------------------------------------------------
(* C6: in the leaderboard of a reply every entry has the position 1 + the  *)
(* number of distinct seconds of the rows of its guild and puzzle that are *)
(* smaller than its own seconds.                                           *)

FasterTimes(frame, seconds) ==
    {s.seconds : s \in {r \in ScopeRows(solves, frame) : r.seconds < seconds}}

C6_DenseRanking ==
    \A u \in Units :
        Replied(units[u])
        => /\ Len(units[u].entries) = Cardinality(ScopeRows(solves, units[u]))
           /\ \A i \in 1..Len(units[u].entries) :
                  units[u].entries[i].position
                      = 1 + Cardinality(FasterTimes(units[u], units[u].entries[i].seconds))

\* seconds 30, 30, 45 with the positions 1, 1, 2
C6_Witness ==
    \E u \in Units :
        /\ Replied(units[u])
        /\ Len(units[u].entries) = 3
        /\ [i \in 1..3 |-> units[u].entries[i].seconds] = <<30, 30, 45>>
        /\ [i \in 1..3 |-> units[u].entries[i].position] = <<1, 1, 2>>

----------------------------------------------------------------------------
(* C7: the rows a leaderboard is built from are the rows of the table with *)
(* its guild and puzzle, each once and no other, by ascending seconds and, *)
(* for equal seconds, ascending timestamp; the entries are these rows in   *)
(* this order.                                                             *)

C7_ContentAndOrder ==
    \A u \in Units :
        units[u].pc \in {"get_or_fetch_members", "send", "delete"}
        => LET q == units[u].query
               e == units[u].entries
           IN  /\ Len(q) = Cardinality(ScopeRows(solves, units[u]))
               /\ {q[i] : i \in 1..Len(q)} = ScopeRows(solves, units[u])
               /\ \A i, j \in 1..Len(q) :
                      i < j => \/ q[i].seconds < q[j].seconds
                               \/ /\ q[i].seconds = q[j].seconds
                                  /\ q[i].timestamp <= q[j].timestamp
               /\ Replied(units[u])
                  => /\ Len(e) = Len(q)
                     /\ \A i \in 1..Len(q) : /\ e[i].member = q[i].user_id
                                             /\ e[i].seconds = q[i].seconds

\* two entries with equal seconds, B recorded before A, while the table has
\* rows of another guild and of another puzzle too
C7_Witness ==
    \E u \in Units :
        /\ Replied(units[u])
        /\ Len(units[u].entries) = 2
        /\ units[u].query[1].seconds = units[u].query[2].seconds
        /\ units[u].query[1].timestamp < units[u].query[2].timestamp
        /\ units[u].entries[1].member = 2
        /\ \E s \in solves : RowKey(s)[2] # units[u].message.guild
        /\ \E s \in solves : /\ RowKey(s)[2] = units[u].message.guild
                             /\ RowKey(s)[3] # units[u].key

----------------------------------------------------------------------------
(* C8: from an empty table, in one guild and for one date: A posts 52, and *)
(* there is one row and the board "1. A (0:52) :crown:"; B posts 40, and   *)
(* the board is "1. B (0:40) :crown:" over "2. A (0:52)"; A posts 52 again, *)
(* and the table is unchanged and the board the same; A posts 30, and the  *)
(* board is "1. A (0:30) :crown:" over "2. B (0:40)"; there are two rows   *)
(* from the second post on.                                                *)

Handled == 4 - Len(inbox)

StoredTimes == {<<s.user_id, s.seconds>> : s \in solves}

Board1 == <<"1", ". ", "A", " (", "0", ":", "5", "2", ")", " :crown:">>

Board2 == <<"1", ". ", "B", " (", "0", ":", "4", "0", ")", " :crown:", "\n",
            "2", ". ", "A", " (", "0", ":", "5", "2", ")">>

Board4 == <<"1", ". ", "A", " (", "0", ":", "3", "0", ")", " :crown:", "\n",
            "2", ". ", "B", " (", "0", ":", "4", "0", ")">>

ScenarioState ==
    /\ Handled = 0 => solves = {}
    /\ Handled = 1 => StoredTimes = {<<1, 52>>} /\ Cardinality(solves) = 1
    /\ Handled \in {2, 3} => StoredTimes = {<<1, 52>>, <<2, 40>>} /\ Cardinality(solves) = 2
    /\ Handled = 4 => StoredTimes = {<<1, 30>>, <<2, 40>>} /\ Cardinality(solves) = 2
    /\ \A u \in Units :
           Replied(units[u])
           => units[u].reply.description
                  = CASE Handled = 1 -> Board1
                      [] Handled \in {2, 3} -> Board2
                      [] Handled = 4 -> Board4

C8_Scenario ==
    []ScenarioState /\ [][Len(inbox) = 2 /\ Len(inbox') = 1 => solves' = solves]_vars

\* the reply to the last post is out
C8_Witness ==
    /\ inbox = <<>>
    /\ \E u \in Units : /\ Replied(units[u])
                        /\ units[u].reply.description = Board4
                        /\ units[u].reply.color = "gold"

----------------------------------------------------------------------------
(* C9: the reply to an accepted solve has the colour gold if and only if   *)
(* an entry at position 1 of its leaderboard is the author's, and no       *)
(* colour otherwise.                                                       *)

C9_HighlightColour ==
    \A u \in Units :
        Replied(units[u]) /\ IsSolve(units[u])
        => LET first == \E i \in 1..Len(units[u].entries) :
                            /\ units[u].entries[i].position = 1
                            /\ units[u].entries[i].member = units[u].message.author
           IN  /\ first => units[u].reply.color = "gold"
               /\ ~first => units[u].reply.color = "None"

\* the author shares the first place and is listed second
C9_Witness ==
    \E u \in Units :
        /\ Replied(units[u]) /\ IsSolve(units[u])
        /\ Len(units[u].entries) = 2
        /\ units[u].entries[2].position = 1
        /\ units[u].entries[2].member = units[u].message.author
        /\ units[u].reply.color = "gold"

----------------------------------------------------------------------------
(* C10: a leaderboard for a guild and puzzle without rows has no entries   *)
(* and renders as "No leaderboard for " and the puzzle, without raising; a *)
(* leaderboard for a guild and puzzle with rows never renders as that.     *)

NoLeaderboardFor(key) ==
    CASE key = D1 -> <<"No leaderboard for ", "2", "0", "2", "4", "-", "0", "4", "-", "2", "0">>
      [] key = D2 -> <<"No leaderboard for ", "2", "0", "2", "4", "-", "0", "4", "-", "2", "1">>
      [] key \in {P1, P2} -> <<"No leaderboard for ", "3", "8">>
      [] key = P3 -> <<"No leaderboard for ", "3", "9">>

C10_EmptyLeaderboard ==
    [][\A u \in Units :
         units[u].pc = "get_or_fetch_members" /\ units'[u] # units[u]
         => IF ScopeRows(solves, units[u]) = {}
            THEN /\ units'[u].pc = "send"
                 /\ units'[u].entries = <<>>
                 /\ units'[u].reply.description = NoLeaderboardFor(units[u].key)
            ELSE units'[u].pc = "send"
                 => /\ units'[u].entries # <<>>
                    /\ units'[u].reply.description # NoLeaderboardFor(units[u].key)]_vars

\* the reply to a leaderboard command for a date without rows in the guild,
\* while the table has rows
C10_Witness ==
    \E u \in Units :
        /\ units[u].pc = "send"
        /\ units[u].message.form = "command"
        /\ units[u].entries = <<>>
        /\ units[u].reply.description = NoLeaderboardFor(units[u].key)
        /\ solves # {}

----------------------------------------------------------------------------
(* C11: when a user of the rows of a leaderboard is not resolved, the unit *)
(* ends with an exception and sends no leaderboard text: the exception     *)
(* comes from get_or_fetch_members, or, when that call returns without the *)
(* member, from the colour loop or from render, after get_leaderboard has  *)
(* returned a leaderboard whose entry has no member.  A leaderboard is     *)
(* sent only with every user of its rows resolved.                         *)

\* this step is the return of get_or_fetch_members in unit u
Resolves(u) == units[u].pc = "get_or_fetch_members" /\ units'[u] # units[u]

NothingSent(u) ==
    /\ solves' = solves
    /\ units'[u].pc = "raised"
    /\ units'[u].reply = NoReply
    /\ units'[u].entries = <<>>
    /\ ~units'[u].deleted

\* a unit that raised ends without sending
RaisedEnds(u) == units[u].pc = "raised" => units'[u] \in {units[u], Idle}

C11_UnresolvedAborts ==
    [][\A u \in Units :
         /\ Resolves(u)
            => IF units'[u].pc = "send"
               THEN /\ UsersOf(units[u].query) \subseteq units'[u].members
                    /\ Len(units'[u].entries) = Len(units[u].query)
                    /\ \A i \in 1..Len(units[u].query) :
                           units'[u].entries[i].member = units[u].query[i].user_id
               ELSE /\ NothingSent(u)
                    /\ units'[u].raised_in \in {"get_or_fetch_members", "on_solve", "render"}
         /\ RaisedEnds(u)]_vars

\* the claim as stated: whenever the unit ends at this step for a user that is
\* not resolved, get_leaderboard has not returned
C11_BuildNeverReturns ==
    [][\A u \in Units :
         Resolves(u) /\ units'[u].pc # "send"
         => NothingSent(u) /\ units'[u].raised_in = "get_or_fetch_members"]_vars

\* render raised on an entry without member, in a leaderboard of two rows or
\* more that get_leaderboard had returned
C11_Witness ==
    \E u \in Units : /\ units[u].pc = "raised"
                     /\ units[u].raised_in = "render"
                     /\ Cardinality(solves) >= 2

----------------------------------------------------------------------------
(* C12: two units that handle solves for one key do not interleave inside  *)
(* the upsert: get_or_create and save run without an await between them,   *)
(* so every upsert is one step that decides on the table as it is at that  *)
(* step.  Units interleave at the awaits after the upsert; in every        *)
(* interleaving the key has exactly one row, whose seconds are those of    *)
(* the upsert that ran last.                                               *)

UpsertIsOneStep(u) ==
    LET key == UnitKey(units'[u])
        old == RowsOf(solves, key)
    IN  /\ units'[u].created <=> old = {}
        /\ units'[u].saved <=> (old # {} /\ \A s \in old : s.seconds # units'[u].seconds)
        /\ Cardinality(RowsOf(solves', key)) = 1
        /\ \A s \in RowsOf(solves', key) : s.seconds = units'[u].seconds
        /\ solves' \ RowsOf(solves', key) = solves \ old

C12_LastUpsertWins ==
    /\ []UniqueKeys
    /\ [][/\ \A u \in Units : Accepted(u) => UpsertIsOneStep(u)
          /\ (~ \E u \in Units : Accepted(u)) => solves' = solves]_vars

\* the claim as stated: the read of the upsert is a step of its own, which
\* leaves the row it read, and the overwrite is a later step
C12_ReadAndWriteApart ==
    [][\A u \in Units :
         Accepted(u) => RowsOf(solves, UnitKey(units'[u])) \subseteq solves']_vars

\* two units in flight with solves for one key and different seconds, each of
\* which has overwritten the row
C12_Witness ==
    \E u, v \in Units :
        /\ u # v
        /\ InFlightSolve(units[u]) /\ InFlightSolve(units[v])
        /\ UnitKey(units[u]) = UnitKey(units[v])
        /\ units[u].saved /\ units[v].saved
        /\ units[u].seconds # units[v].seconds
        /\ \A s \in RowsOf(solves, UnitKey(units[u])) : s.seconds = units[u].seconds

----------------------------------------------------------------------------
(* C13: the steps of a leaderboard command and of a dump command, and the  *)
(* steps that build a leaderboard or look up a user, leave the table as it *)
(* is; in every step every key that has a row keeps a row, and the number  *)
(* of rows does not go down.                                               *)

\* this step moves a unit that handles a command, or a unit that is building
\* a leaderboard or its reply
ViewStep(u) ==
    /\ units'[u] # units[u]
    /\ \/ units'[u].message.form = "command"
       \/ units[u].message.form = "command"
       \/ units[u].pc \in {"get_or_fetch_members", "fetch_user", "send", "reply"}

StoredKeys(table) == {RowKey(s) : s \in table}

C13_ViewsReadOnly ==
    [][/\ \A u \in Units : ViewStep(u) => solves' = solves
       /\ StoredKeys(solves) \subseteq StoredKeys(solves')
       /\ Cardinality(solves') >= Cardinality(solves)]_vars

\* the reply of a dump command with two rows or more, over a table with a row
\* that was overwritten before
C13_Witness ==
    \E u \in Units :
        /\ units[u].pc = "reply"
        /\ units[u].message.form = "command"
        /\ Len(units[u].csv) >= 3
        /\ \E s \in solves : s.seconds = 52

----------------------------------------------------------------------------
(* C14: on_message returns at once for the message of a bot, whatever its  *)
(* form: the table and the units are as before, so no image is requested   *)
(* and there is no upsert, reaction, reply or deletion.                    *)

C14_BotsIgnored ==
    [][inbox' # inbox /\ Head(inbox).author_bot
       => /\ solves' = solves
          /\ units' = units
          /\ \A u \in Units : units'[u] = Idle]_vars

\* the last message of the feed, a bot's, has been taken with rows in the
\* table
C14_Witness ==
    /\ inbox = <<>>
    /\ solves # {}
    /\ \A u \in Units : units[u] = Idle

----------------------------------------------------------------------------
(* C15: the file of a dump command has the header and then one row for     *)
(* every row of the table with the guild of the command, and no other row; *)
(* fetch_user has run once for every user of these rows; every dump starts *)
(* with no display name known and fetches again.                           *)

IsDump(frame) ==
    /\ frame.message.form = "command"
    /\ frame.message.parts # <<>>
    /\ frame.message.parts[1] \in {"d", "dump"}

GuildRows(frame) == {s \in solves : s.guild_id = frame.message.guild}

ExportComplete ==
    \A u \in Units :
        IsDump(units[u]) /\ units[u].pc = "reply"
        => LET csv == units[u].csv
               rows == GuildRows(units[u])
           IN  /\ csv[1] = (IF bot = "minibot" THEN mini_header ELSE pip_header)
               /\ Len(csv) = 1 + Cardinality(rows)
               /\ {csv[i] : i \in 2..Len(csv)} = {writerow(s) : s \in rows}
               /\ units[u].lookups = Cardinality({s.user_id : s \in rows})
               /\ units[u].display_names = {s.user_id : s \in rows}

ExportStartsFresh ==
    \A u \in Units :
        units[u].pc = "idle" /\ units'[u].pc # "idle" /\ IsDump(units'[u])
        => /\ units'[u].display_names = {}
           /\ IF GuildRows(units'[u]) = {}
              THEN units'[u].pc = "reply" /\ units'[u].lookups = 0
              ELSE units'[u].pc = "fetch_user" /\ units'[u].lookups = 1

C15_Export == []ExportComplete /\ [][ExportStartsFresh]_vars

\* a file with three rows of two users, while the table has a row of the
\* other guild
C15_Witness ==
    \E u \in Units :
        /\ IsDump(units[u]) /\ units[u].pc = "reply"
        /\ Len(units[u].csv) = 4
        /\ units[u].lookups = 2
        /\ \E s \in solves : s.guild_id # units[u].message.guild

----------------------------------------------------------------------------
(* C16: the seconds stored for a duration of two or three components are   *)
(* 60 * m + s and 3600 * h + 60 * m + s of the numbers it was written      *)
(* from: 52 for "0:52" and 3723 for "1:02:03"; a text of one component, or *)
(* one that the pattern does not match, is no solve.                       *)

ExpectedSeconds ==
    IF Len(inbox[2]) = 2 THEN 60 * inbox[2][1] + inbox[2][2]
    ELSE 3600 * inbox[2][1] + 60 * inbox[2][2] + inbox[2][3]

C16_DurationConversion ==
    /\ inbox[2] = <<>> => solves = {} /\ \A u \in Units : units[u] = Idle
    /\ \A s \in solves : s.seconds = ExpectedSeconds
    /\ \A u \in Units : units[u].pc # "idle" /\ units[u].pc # "raised"
                           => units[u].seconds = ExpectedSeconds
    /\ inbox[1] = <<"0", ":", "5", "2">> => \A s \in solves : s.seconds = 52
    /\ inbox[1] = <<"1", ":", "0", "2", ":", "0", "3">> => \A s \in solves : s.seconds = 3723

\* "25:59:52" is stored as 93592 seconds
C16_Witness ==
    /\ inbox[1] = <<"2", "5", ":", "5", "9", ":", "5", "2">>
    /\ \E s \in solves : s.seconds = 93592
    /\ \E u \in Units : units[u].pc = "send"

----------------------------------------------------------------------------
(* C17: the text of a leaderboard with entries has one line for every      *)
(* entry, in the order of the entries: the position, ". ", the display     *)
(* name, and in brackets the minutes, not padded and above 59 for an hour  *)
(* or more, ":" and the seconds in two digits; " :crown:" ends a line if   *)
(* and only if its entry has position 1, so at least one line has it, and  *)
(* the lines that have it are those of the least seconds of the scope.     *)

ExpectedTime(seconds) ==
    CASE seconds = 5 -> <<"0", ":", "0", "5">>
      [] seconds = 600 -> <<"1", "0", ":", "0", "0">>
      [] seconds = 3723 -> <<"6", "2", ":", "0", "3">>

ExpectedLine(entry) ==
    <<CASE entry.position = 1 -> "1" [] entry.position = 2 -> "2"
        [] entry.position = 3 -> "3",
      ". ", DisplayName[entry.member], " (">>
        \o ExpectedTime(entry.seconds) \o <<")">>
        \o (IF entry.position = 1 THEN <<" :crown:">> ELSE <<>>)

RECURSIVE ExpectedLines(_)
ExpectedLines(entries) ==
    IF Len(entries) = 1 THEN ExpectedLine(entries[1])
    ELSE ExpectedLine(entries[1]) \o <<"\n">> \o ExpectedLines(Tail(entries))

Count(text, token) == Cardinality({i \in 1..Len(text) : text[i] = token})

C17_Rendering ==
    \A u \in Units :
        Replied(units[u]) /\ units[u].entries # <<>>
        => LET text == units[u].reply.description
               entries == units[u].entries
           IN  /\ text = ExpectedLines(entries)
               /\ Count(text, "\n") = Len(entries) - 1
               /\ Count(text, " :crown:") >= 1
               /\ Count(text, " :crown:")
                      = Cardinality({i \in 1..Len(entries) :
                            \A s \in ScopeRows(solves, units[u]) :
                                entries[i].seconds <= s.seconds})

\* three lines: 0:05 twice with the crown, then 62:03 without it
C17_Witness ==
    \E u \in Units :
        /\ Replied(units[u])
        /\ Len(units[u].entries) = 3
        /\ [i \in 1..3 |-> units[u].entries[i].seconds] = <<5, 5, 3723>>
        /\ Count(units[u].reply.description, " :crown:") = 2

----------------------------------------------------------------------------
(* C18: a solve goes through its steps in one order: the image comparison  *)
(* (badge links only) and the upsert when the message is taken, then the   *)
(* leaderboard, then the reply, then the deletion of the message, which is *)
(* asked for only when the reply has been sent; a message changes the rows *)
(* of at most one key, once, when it is taken, and gets at most one reply. *)

OrderOfSolve ==
    {<<"idle", "add_reaction">>, <<"idle", "raised">>, <<"idle", "get_or_fetch_members">>,
     <<"get_or_fetch_members", "send">>, <<"get_or_fetch_members", "raised">>,
     <<"send", "delete">>, <<"delete", "idle">>, <<"add_reaction", "idle">>}

OrderInState ==
    \A u \in Units :
        /\ units[u].deleted => units[u].pc = "delete" /\ units[u].reply # NoReply
        /\ IsSolve(units[u]) /\ units[u].reply # NoReply
           => units[u].pc \in {"send", "delete"}
        /\ units[u].pc = "get_or_fetch_members" => units[u].entries = <<>>
        /\ InFlightSolve(units[u])
           => /\ RowsOf(solves, UnitKey(units[u])) # {}
              /\ units[u].message.form = "badge"
                 => units[u].image # "" /\ units[u].image # units[u].base

OrderInStep ==
    /\ solves' # solves
       => /\ inbox # <<>> /\ inbox' = Tail(inbox)
          /\ \E u \in Units :
                 /\ Accepted(u)
                 /\ solves' \ RowsOf(solves', UnitKey(units'[u]))
                        = solves \ RowsOf(solves, UnitKey(units'[u]))
    /\ \A u \in Units :
           /\ units'[u].pc # units[u].pc /\ (IsSolve(units[u]) \/ IsSolve(units'[u]))
              => <<units[u].pc, units'[u].pc>> \in OrderOfSolve
           /\ IsSolve(units'[u]) /\ units'[u].reply # units[u].reply
              => units[u].pc = "get_or_fetch_members" /\ inbox' = inbox

C18_StepOrder == []OrderInState /\ [][OrderInStep]_vars

\* the deletion of the second message of the feed, a badge link, is under
\* way after its reply
C18_Witness ==
    \E u \in Units :
        /\ Len(inbox) = 1
        /\ units[u].pc = "delete"
        /\ units[u].deleted
        /\ units[u].message.form = "badge"
        /\ units[u].reply.description # <<>>

----------------------------------------------------------------------------
(* C19: with units side by side, the leaderboard in the reply to a solve   *)
(* has an entry of the author with the seconds of that solve: the rows are *)
(* read in the step of the upsert, and are not read again after the await  *)
(* of get_or_fetch_members, whatever the other unit has stored since.      *)

OwnRow(frame, row) ==
    row.user_id = frame.message.author /\ row.seconds = frame.seconds

C19_OwnWriteInReply ==
    \A u \in Units :
        InFlightSolve(units[u])
        => /\ \E i \in 1..Len(units[u].query) : OwnRow(units[u], units[u].query[i])
           /\ Replied(units[u])
              => \E i \in 1..Len(units[u].entries) :
                     /\ units[u].entries[i].member = units[u].message.author
                     /\ units[u].entries[i].seconds = units[u].seconds

\* a reply with the seconds of its solve, while the row of its key holds the
\* seconds that the other unit has stored since
C19_Witness ==
    \E u, v \in Units :
        /\ u # v
        /\ Replied(units[u]) /\ IsSolve(units[u])
        /\ InFlightSolve(units[v]) /\ UnitKey(units[v]) = UnitKey(units[u])
        /\ \A s \in RowsOf(solves, UnitKey(units[u])) : s.seconds # units[u].seconds
        /\ \E i \in 1..Len(units[u].entries) :
               /\ units[u].entries[i].member = units[u].message.author
               /\ units[u].entries[i].seconds = units[u].seconds

----------------------------------------------------------------------------
(* C20: when the leaderboard of a solve fails after the upsert, in         *)
(* get_or_fetch_members, in the colour loop or in render, the table stays  *)
(* as it is and the key of the solve keeps its row, no reply is sent and   *)
(* the message is not deleted; the exception changes no row afterwards,    *)
(* and a leaderboard read later has every row of its guild and puzzle.     *)

BuildFails(u) ==
    /\ IsSolve(units[u])
    /\ units[u].pc = "get_or_fetch_members"
    /\ units'[u].pc = "raised"

\* this step reads the rows of a leaderboard in unit u
ReadsRows(u) == units[u].pc = "idle" /\ units'[u].pc = "get_or_fetch_members"

C20_NoRollback ==
    [][\A u \in Units :
         /\ BuildFails(u)
            => /\ solves' = solves
               /\ RowsOf(solves', UnitKey(units[u])) # {}
               /\ units'[u].reply = NoReply
               /\ ~units'[u].deleted
         /\ units[u].pc = "raised" /\ units'[u] # units[u]
            => solves' = solves /\ units'[u] = Idle
         /\ ReadsRows(u)
            => {units'[u].query[i] : i \in 1..Len(units'[u].query)}
                   = ScopeRows(solves', units'[u])]_vars

\* B's leaderboard has the row of A, one of whose solves has raised and got no
\* reply
C20_Witness ==
    \E u, v \in Units :
        /\ inbox = <<>>
        /\ units[v].pc = "raised"
        /\ Replied(units[u])
        /\ units[u].message.author = 2
        /\ \E i \in 1..Len(units[u].entries) : units[u].entries[i].member = 1

====
